---- MODULE Spec2Model ----
(***************************************************************************)
(* Model of the QuickSwap liquidity-pool poller: the per-pair connection   *)
(* pool (protocol/quickswap/contract/clients.py), the block poller with    *)
(* its lineage tracker and the swap poller (data_streams.py).              *)
(*                                                                         *)
(* Threads.  The asyncio event loop runs poll_for_blocks, the done         *)
(* callbacks of futures and collect_pool_status.  The ThreadPoolExecutor   *)
(* runs conn.eth.getBlock, fetch_lp_token_supply and                       *)
(* fetch_current_pool_reserves on worker threads.  Worker threads are      *)
(* interchangeable, so the model keeps the state of every submitted work   *)
(* item (in submission order, the executor's queue being FIFO) and bounds  *)
(* the number of items being run by the number of workers.                 *)
(*                                                                         *)
(* Specifications.  Spec is the block poller with the executor and the     *)
(* connection pools; TrackerSpec is the lineage tracker called with blocks *)
(* in any order; SwapSpec is the swap loops; StatsSpec is ProcessStats     *)
(* with its report loop; ZeroPairsSpec is main with no monitored pair;     *)
(* MainSpec is main with one monitored pair, its poll loops counted and    *)
(* their filter polls failing; HangSpec is the block poller and the report *)
(* loop sharing the executor, with one remote call that never returns and  *)
(* weak fairness on the poller, the worker threads and the report timer.   *)
(***************************************************************************)
EXTENDS Integers, Sequences, FiniteSets, TLC

\* ---------------------------------------------------------------- bounds
\* Blocks the node produces during a run of the block poller.
NumBlocks == 2
\* pool_size of QuickSwapPairClient.__init__ (the code's default is 6).
PoolSize == 2
\* max_workers of the ThreadPoolExecutor (the code passes 10).
NumWorkers == 3
\* Remote calls that fail during a run.
MaxFailures == 1
\* Blocks handed to the lineage tracker in TrackerSpec.
TrackedBlocks == 3
\* Log entries one poll of a swap filter returns at most.
MaxSwaps == 3
\* Latency samples recorded during a run.
MaxSamples == 4
\* Reports report_process_stats prints during a run of StatsSpec.
MaxReports == 2
\* Iterations each poll loop makes during a run of MainSpec.
MaxTicks == 2

\* ------------------------------------------------------- configuration
\* The monitored pairs, in the order of the clients list of main (two of the
\* three pairs of MONITORED_PAIRS; the third behaves like these).
Clients == <<"WMATIC_USDC", "USDC_WETH">>

Pairs == {Clients[i] : i \in 1..Len(Clients)}

\* WMATIC_USDC_ADDRESS, USDC_WETH_ADDRESS.
Address(p) ==
    IF p = "WMATIC_USDC" THEN "0x6e7a5fafcec6bb1e78bae2a1f0b612012bf14827"
    ELSE "0x853ee4b2a13f8a742d64c8f088be7ba2131f670d"

None == "None"

\* ----------------------------------------------------------- hex strings
HexDigits == <<"0", "1", "2", "3", "4", "5", "6", "7",
               "8", "9", "a", "b", "c", "d", "e", "f">>

RECURSIVE HexBody(_)
HexBody(bytes) ==
    IF bytes = <<>> THEN ""
    ELSE HexDigits[(Head(bytes) \div 16) + 1] \o HexDigits[(Head(bytes) % 16) + 1]
         \o HexBody(Tail(bytes))

\* HexBytes.hex(): "0x" followed by two digits per byte.
Hex(bytes) == "0x" \o HexBody(bytes)

\* ------------------------------------------------------------ the chain
\* Block i has a hash of its own (one byte in the model).
BlockHash(i) == <<17 * i>>

\* The hash of a block the poller never saw.
ForeignHash(i) == <<17 * i + 128>>

BlockNumber(i) == 100 + i

Block(i, parent) == [number |-> BlockNumber(i), hash |-> BlockHash(i), parentHash |-> parent]

\* The runs of the block poller: the parent hash of block i is the hash of
\* block i-1 or the hash of a block the poller never saw.
Chains ==
    { [i \in 1..NumBlocks |-> Block(i, IF i \in gaps THEN ForeignHash(i) ELSE BlockHash(i - 1))] :
        gaps \in SUBSET (1..NumBlocks) }

\* The block sequences of TrackerSpec: any parent hash among the hashes in play.
TrackerChains ==
    { [i \in 1..TrackedBlocks |-> Block(i, BlockHash(par[i]))] :
        par \in [1..TrackedBlocks -> 0..TrackedBlocks] }

\* Every block's parentHash is the hash of the block before it.
WellLinked(c) == \A i \in DOMAIN c : c[i].parentHash = BlockHash(i - 1)

\* ------------------------------------------------------------ swap logs
\* Decoded Swap log entries a filter poll can return: blockNumber,
\* transactionHash and args.amount0In, amount1In, amount0Out, amount1Out.
SwapLog(n, tx, a0i, a1i, a0o, a1o) ==
    [blockNumber |-> n, transactionHash |-> tx,
     args |-> [amount0In |-> a0i, amount1In |-> a1i, amount0Out |-> a0o, amount1Out |-> a1o]]

SwapLogs == { SwapLog(100, <<161>>, 5, 0, 0, 7),
              SwapLog(100, <<162>>, 0, 3, 2, 0),
              SwapLog(101, <<163>>, 1, 0, 0, 4),
              SwapLog(101, <<164>>, 0, 6, 8, 0) }

\* ---------------------------------------------------------------- clock
\* <<start_ns, end_ns>> of a unit of work, as time_ns() returned them.
Timings == {<<1000000, 11500000>>, <<1000000, 21000000>>, <<1000000, 31000000>>,
            <<1000000, 101999999>>}

\* The clock is not followed in Spec and SwapSpec: every unit of work there
\* is given this timing.
UnitTiming == <<1000000, 11500000>>

RECURSIVE SeqsUpTo(_, _)
SeqsUpTo(S, n) ==
    IF n = 0 THEN {<<>>}
    ELSE LET shorter == SeqsUpTo(S, n - 1)
         IN shorter \cup {Append(q, x) : q \in shorter, x \in S}

VARIABLES
    clients,          \* the clients list of main (fixed during a run)
    loops,            \* loops[l]: where the poll loop l of main stands
    ticks,            \* ticks[l]: iterations the poll loop l has made
    swap_filter,      \* swap_filter[p]: the connection the filter of p's swap_loop polls
    chain,            \* the blocks the node produces (fixed during a run)
    delivered,        \* how many of them latest_block_filter has returned
    tasks,            \* work items submitted to the executor, in submission order
    pool,             \* pool[p]: _contract_pool of the client of pair p (a FIFO queue)
    remote_failures,  \* remote calls that have raised so far
    prev_block,       \* BlockTracker.prev_block
    checked,          \* blocks passed to assert_continuous_block_lineage, in call order
    anomalies,        \* anomalies[b]: times the missing-block line was printed for block b
    cps,              \* cps[<<b, p>>]: where collect_pool_status(client of p, block b) stands
    events,           \* events[<<p, n>>]: PairStatusEvents printed for pair p, block number n
    swap_pair,        \* the pair whose swap_loop ran last
    new_swaps,        \* what its poll of the swap filter returned
    swap_printed,     \* whether that iteration built and printed a batch
    swap_events,      \* the batch it printed
    swap_mismatches,  \* mismatched-blocks lines that iteration printed
    block_process_times,  \* ProcessStats._block_process_times
    swap_process_times,   \* ProcessStats._swap_process_times
    stats_pc,         \* where report_process_stats stands
    calc_args,        \* the lists it passed to calculate_process_stats
    reports,          \* what it has printed, with the lists each report was computed from
    recorded          \* every sample passed to report_*_process so far, by class

poolVars == <<tasks, pool, remote_failures>>

pollVars == <<clients, chain, delivered, cps, events>>

trackerVars == <<prev_block, checked, anomalies>>

swapVars == <<swap_filter, swap_pair, new_swaps, swap_printed, swap_events, swap_mismatches>>

statsVars == <<block_process_times, swap_process_times, stats_pc, calc_args, reports, recorded>>

mainVars == <<loops, ticks>>

vars == <<poolVars, pollVars, trackerVars, swapVars, statsVars, mainVars>>

EventKeys == Pairs \X {BlockNumber(i) : i \in 1..NumBlocks}

Coroutines == (1..NumBlocks) \X Pairs

\* The pairs main built a client for.
ClientPairs == {clients[i] : i \in 1..Len(clients)}


\* ----------------------------------------------------- connection pool
\* QuickSwapPairClient._build_contract_pool: pool_size connections are put in
\* the queue.
BuildContractPool == [i \in 1..PoolSize |-> i]

\* QuickSwapPairClient.__init__: _swap_contract is the connection built after
\* those of the pool.
SwapContract(p) == PoolSize + 1

\* Variant: the filter is created on a connection taken from the pool.
GetLatestSwapFilterAs(p) == Head(BuildContractPool)

\* get_latest_swap_filter: the connection the Swap filter is created on.
GetLatestSwapFilter(p) == SwapContract(p)

\* Variant: the oldest item is read and left in the queue.
QueueAfterGetAs(q) == q

\* Queue.get: the queue after its oldest item has been handed out.
QueueAfterGet(q) == Tail(q)

\* Variant: the context manager swallows the exception of its body.
PooledContractExitAs(bound, pending) ==
    IF bound THEN "ok" ELSE "UnboundLocalError"

\* The exception that leaves _pooled_contract ("ok" for none).  The finally
\* clause evaluates `contract`; when get() raised queue.Empty the name was
\* never bound, and the UnboundLocalError raised there replaces the exception
\* in flight.
PooledContractExit(bound, pending) ==
    IF bound THEN pending ELSE "UnboundLocalError"

\* Variant: put(contract) after the yield instead of in a finally clause.
PooledContractPutAs(q, bound, c, pending) ==
    IF bound /\ pending = "ok" THEN Append(q, c) ELSE q

\* The finally clause of _pooled_contract: put(contract), reached only when
\* contract is bound.
PooledContractPut(q, bound, c, pending) ==
    IF bound THEN Append(q, c) ELSE q

\* ------------------------------------------------------------ work items
GetBlockTask(b) ==
    [kind |-> "getBlock", block |-> b, pair |-> None, st |-> "queued",
     conn |-> None, res |-> None]

FetchTask(k, b, p) ==
    [kind |-> k, block |-> b, pair |-> p, st |-> "queued", conn |-> None, res |-> None]

IsFetch(t) == t.kind \in {"lp", "reserves"}

\* calculate_process_stats submitted by report_process_stats.
StatsTask ==
    [kind |-> "stats", block |-> 0, pair |-> None, st |-> "queued", conn |-> None, res |-> None]

\* Work items a worker thread is running ("hung": inside a remote call that
\* never returns).
Busy == {i \in 1..Len(tasks) : tasks[i].st \in {"running", "waiting", "holding", "hung"}}

Queued == {i \in 1..Len(tasks) : tasks[i].st = "queued"}

\* Variant: ThreadPoolExecutor(max_workers=1).
CanStartAs(i) ==
    /\ i \in Queued
    /\ \A j \in Queued : i <= j
    /\ Busy = {}

\* A worker thread is free and i is the oldest queued work item.
CanStart(i) ==
    /\ i \in Queued
    /\ \A j \in Queued : i <= j
    /\ Cardinality(Busy) < NumWorkers

\* collect_pool_status(client, ...) submits fetch_lp_token_supply, then
\* fetch_current_pool_reserves.
CollectSubmits(b, p) == <<FetchTask("lp", b, p), FetchTask("reserves", b, p)>>

\* asyncio.gather(*[collect_pool_status(client, ...) for client in clients]).
RECURSIVE GatherSubmits(_, _)
GatherSubmits(b, i) ==
    IF i > Len(clients) THEN <<>>
    ELSE CollectSubmits(b, clients[i]) \o GatherSubmits(b, i + 1)

\* Variant: a block is fetched only when there is a client to report for.
BlockSubmitsAs(lo, hi) ==
    [k \in 1..(IF clients = <<>> THEN 0 ELSE hi - lo + 1) |-> GetBlockTask(lo + k - 1)]

\* The for loop of poll_for_blocks over the entries lo..hi: getBlock is
\* submitted for each entry as the loop reaches it.
RECURSIVE BlockSubmits(_, _)
BlockSubmits(lo, hi) ==
    IF lo > hi THEN <<>> ELSE <<GetBlockTask(lo)>> \o BlockSubmits(lo + 1, hi)

\* Variant: the coroutines start in the reverse of the order they were created in.
StatusSubmitsAs(lo, hi) ==
    [k \in 1..((hi - lo + 1) * 2 * Len(clients)) |->
        GatherSubmits(hi - ((k - 1) \div (2 * Len(clients))), 1)[((k - 1) % (2 * Len(clients))) + 1]]

\* The collect_pool_status coroutines of the entries lo..hi start when the
\* loop reaches `await asyncio.sleep`, in the order they were created.
RECURSIVE StatusSubmits(_, _)
StatusSubmits(lo, hi) ==
    IF lo > hi THEN <<>> ELSE GatherSubmits(lo, 1) \o StatusSubmits(lo + 1, hi)

\* Variant: every collect_pool_status of a block gathers the reads of all pairs.
AwaitedAs(b, p) == {j \in 1..Len(tasks) : tasks[j].block = b}

\* The futures collect_pool_status(client of p, block b) gathers:
\* block_data, lp_shares and position.
Awaited(b, p) ==
    {j \in 1..Len(tasks) : /\ tasks[j].block = b
                           /\ \/ tasks[j].kind = "getBlock"
                              \/ tasks[j].pair = p}

\* Variant: the await returns with the first result instead of the last.
CollectStepAs(c, i, r) ==
    IF cps[c] # "awaiting" \/ i \notin Awaited(c[1], c[2]) THEN cps[c]
    ELSE IF r # "ok" THEN "raised"
    ELSE "emitted"

\* collect_pool_status at `await asyncio.gather(block_data, lp_shares,
\* position)` when the future of work item i resolves with r: gather raises
\* the first exception at once, and returns when the last of the three has a
\* result; the event is then built and printed.
CollectStep(c, i, r) ==
    IF cps[c] # "awaiting" \/ i \notin Awaited(c[1], c[2]) THEN cps[c]
    ELSE IF r # "ok" THEN "raised"
    ELSE IF \A j \in Awaited(c[1], c[2]) \ {i} : tasks[j].st = "done" THEN "emitted"
    ELSE "awaiting"

\* -------------------------------------------------------- lineage tracker
\* Variant: the tracker is not seeded by the first block.
SeededPrevAs(prev, blk) == prev

\* BlockTracker.assert_continuous_block_lineage: prev_block after
\* `self.prev_block = self.prev_block or curr_block_parent`.
SeededPrev(prev, blk) == IF prev = None THEN Hex(blk.parentHash) ELSE prev

\* is_direct_link.
IsDirectLink(prev, blk) == Hex(blk.parentHash) = SeededPrev(prev, blk)

\* Variant: prev_block is updated only when the check passed.
NextPrevAs(prev, blk) == IF IsDirectLink(prev, blk) THEN Hex(blk.hash) ELSE prev

\* prev_block after `self.prev_block = curr_block.result().hash.hex()`.
NextPrev(prev, blk) == Hex(blk.hash)

\* assert_continuous_block_lineage called with the resolved future of block b.
AssertContinuousBlockLineage(b) ==
    /\ checked' = Append(checked, b)
    /\ anomalies' = [anomalies EXCEPT ![b] =
                        IF IsDirectLink(prev_block, chain[b]) THEN @ ELSE @ + 1]
    /\ prev_block' = NextPrev(prev_block, chain[b])

\* ------------------------------------------------------------ swap batch
\* build_latest_pair_swaps_event, lines 196-203: one mismatched-blocks line is
\* printed for every entry whose blockNumber differs from the first entry's.
RECURSIVE MismatchPrints(_, _)
MismatchPrints(curr_block, swaps) ==
    IF swaps = <<>> THEN 0
    ELSE (IF curr_block # Head(swaps).blockNumber THEN 1 ELSE 0)
         + MismatchPrints(curr_block, Tail(swaps))

\* Variant: curr_block starts at 0 instead of the first entry's blockNumber.
BatchMismatchesAs(swaps) ==
    IF Len(swaps) > 1 THEN MismatchPrints(0, swaps) ELSE 0

BatchMismatches(swaps) ==
    IF Len(swaps) > 1 THEN MismatchPrints(swaps[1].blockNumber, swaps) ELSE 0

\* Variant: the amounts of token0 and token1 are taken from each other's fields.
SwapEventOfAs(p, swap) ==
    [pair |-> p, pair_id |-> Address(p),
     amount_0_in |-> swap.args.amount1In, amount_1_in |-> swap.args.amount0In,
     amount_0_out |-> swap.args.amount1Out, amount_1_out |-> swap.args.amount0Out,
     tx |-> Hex(swap.transactionHash), block |-> swap.blockNumber]

\* SwapEvent(...) of lines 209-219 (the timestamp is left out).
SwapEventOf(p, swap) ==
    [pair |-> p, pair_id |-> Address(p),
     amount_0_in |-> swap.args.amount0In, amount_1_in |-> swap.args.amount1In,
     amount_0_out |-> swap.args.amount0Out, amount_1_out |-> swap.args.amount1Out,
     tx |-> Hex(swap.transactionHash), block |-> swap.blockNumber]

\* build_latest_pair_swaps_event, lines 205-221.
RECURSIVE BuildLatestPairSwapsEvent(_, _)
BuildLatestPairSwapsEvent(p, swaps) ==
    IF swaps = <<>> THEN <<>>
    ELSE <<SwapEventOf(p, Head(swaps))>> \o BuildLatestPairSwapsEvent(p, Tail(swaps))

\* ----------------------------------------------------------- statistics
\* int((end_ns - start_ns) / 1000000).
ElapsedMs(start_ns, end_ns) == (end_ns - start_ns) \div 1000000

\* report_block_process / report_swap_process: the list after the append.
ReportProcess(times, timing) == Append(times, ElapsedMs(timing[1], timing[2]))

\* n units of work reported one after the other.
RECURSIVE ReportEach(_, _)
ReportEach(times, n) ==
    IF n = 0 THEN times ELSE ReportEach(ReportProcess(times, UnitTiming), n - 1)

\* Variant: the running list is copied and not reset.
ResetTimesAs(times) == times

\* report_process_stats, `self._block_process_times = []`.
ResetTimes(times) == <<>>

\* Variant: an empty list is passed on as it is.
OrZeroAs(times) == times

\* calculate_process_stats, `block_process_times or [0]`.
OrZero(times) == IF times = <<>> THEN <<0>> ELSE times

RECURSIVE Insert(_, _)
Insert(x, sorted) ==
    IF sorted = <<>> THEN <<x>>
    ELSE IF x <= Head(sorted) THEN <<x>> \o sorted
    ELSE <<Head(sorted)>> \o Insert(x, Tail(sorted))

RECURSIVE Sorted(_)
Sorted(times) == IF times = <<>> THEN <<>> ELSE Insert(Head(times), Sorted(Tail(times)))

\* min(times, default=0) and max(times, default=0).
MinOf(times) == IF times = <<>> THEN 0 ELSE Sorted(times)[1]

MaxOf(times) == IF times = <<>> THEN 0 ELSE Sorted(times)[Len(times)]

\* A variant that interpolates between the ranks of the list as it was
\* recorded, without ordering the samples first.
IntPercentileAs(times, q) ==
    LET s == times
        lo == (q * (Len(s) - 1)) \div 100
        rest == (q * (Len(s) - 1)) % 100
    IN IF rest = 0 THEN s[lo + 1]
       ELSE s[lo + 1] + (rest * (s[lo + 2] - s[lo + 1])) \div 100

\* int(percentile(times, q)) for a non-empty list: numpy orders the samples,
\* interpolates linearly between the two ranks around q/100 * (n - 1), and
\* int() drops the fraction. The interpolation is carried out here in exact
\* arithmetic; numpy carries it out in double precision, which gives the
\* same integer for every list of samples drawn from Timings.
IntPercentile(times, q) ==
    LET s == Sorted(times)
        lo == (q * (Len(s) - 1)) \div 100
        rest == (q * (Len(s) - 1)) % 100
    IN IF rest = 0 THEN s[lo + 1]
       ELSE s[lo + 1] + (rest * (s[lo + 2] - s[lo + 1])) \div 100

StatsOf(times) ==
    [min_process_time_ms |-> MinOf(times), max_process_time_ms |-> MaxOf(times),
     p50_process_time_ms |-> IntPercentile(times, 50),
     p99_process_time_ms |-> IntPercentile(times, 99)]

\* What calculate_process_stats raises ("ok" for nothing): percentile of an
\* empty list is nan, and int(nan) raises ValueError.
CalculateRaises(block_times, swap_times) ==
    IF OrZero(block_times) = <<>> \/ OrZero(swap_times) = <<>> THEN "ValueError" ELSE "ok"

\* The dict calculate_process_stats returns.
CalculateProcessStats(block_times, swap_times) ==
    [BLOCK_PROCESS |-> StatsOf(OrZero(block_times)),
     SWAP_PROCESS |-> StatsOf(OrZero(swap_times))]

\* ------------------------------------------------------------------ Init
InitPool ==
    /\ tasks = <<>>
    /\ pool = [p \in ClientPairs |-> BuildContractPool]
    /\ remote_failures = 0

InitPoll ==
    /\ delivered = 0
    /\ cps = [c \in Coroutines |-> "unstarted"]
    /\ events = [k \in EventKeys |-> 0]

InitTracker ==
    /\ prev_block = None
    /\ checked = <<>>
    /\ anomalies = [b \in DOMAIN chain |-> 0]

InitSwaps ==
    /\ swap_filter = [p \in ClientPairs |-> GetLatestSwapFilter(p)]
    /\ swap_pair = None
    /\ new_swaps = <<>>
    /\ swap_printed = FALSE
    /\ swap_events = <<>>
    /\ swap_mismatches = 0

InitMain ==
    /\ loops = [l \in {"poll_for_blocks"} \cup ClientPairs |-> "running"]
    /\ ticks = [l \in {"poll_for_blocks"} \cup ClientPairs |-> 0]

InitStats ==
    /\ block_process_times = <<>>
    /\ swap_process_times = <<>>
    /\ stats_pc = "sleeping"
    /\ calc_args = [BLOCK_PROCESS |-> <<>>, SWAP_PROCESS |-> <<>>, seen |-> 0]
    /\ reports = <<>>
    /\ recorded = [BLOCK_PROCESS |-> <<>>, SWAP_PROCESS |-> <<>>]

Init ==
    /\ clients = Clients
    /\ chain \in Chains
    /\ InitMain /\ InitPool /\ InitPoll /\ InitTracker /\ InitSwaps /\ InitStats

\* --------------------------------------------------------------- actions
\* poll_for_blocks, one iteration of `while True`: get_new_entries returns the
\* n blocks produced since the last poll.
PollBlocks(n) ==
    /\ n \in 0..(NumBlocks - delivered)
    /\ delivered' = delivered + n
    /\ tasks' = tasks \o BlockSubmits(delivered + 1, delivered + n)
                      \o StatusSubmits(delivered + 1, delivered + n)
    /\ cps' = [c \in Coroutines |->
                 IF c[1] \in (delivered + 1)..(delivered + n) /\ c[2] \in ClientPairs
                 THEN "awaiting" ELSE cps[c]]
    /\ UNCHANGED <<clients, chain, events, pool, remote_failures>>
    /\ UNCHANGED <<trackerVars, swapVars, statsVars>>

\* The event loop resolves the future of work item i with result r (futures
\* resolve in the order the worker threads complete them, and what runs then
\* touches only state the event loop owns, so the model runs it within the
\* completing step): the lineage callback of a block fetch, which raises in
\* curr_block.result() when the fetch failed, then collect_pool_status, which
\* reports its latency after printing the event.
\* Variant: the event is tagged with the number of the latest block delivered.
EventBlockNumberAs(b) == chain[delivered].number

\* collect_pool_status started for block b: block_data.result().number, where
\* block_data is the future of the fetch of b.
EventBlockNumber(b) == chain[b].number

Emitting(i, r) ==
    {p \in Pairs : /\ cps[<<tasks[i].block, p>>] = "awaiting"
                   /\ CollectStep(<<tasks[i].block, p>>, i, r) = "emitted"}

Resolve(i, r) ==
    /\ IF tasks[i].kind = "getBlock" /\ r = "ok"
       THEN AssertContinuousBlockLineage(tasks[i].block)
       ELSE UNCHANGED trackerVars
    /\ cps' = [c \in Coroutines |-> CollectStep(c, i, r)]
    /\ events' = [k \in EventKeys |->
                    IF /\ k[2] = EventBlockNumber(tasks[i].block)
                       /\ cps[<<tasks[i].block, k[1]>>] = "awaiting"
                       /\ CollectStep(<<tasks[i].block, k[1]>>, i, r) = "emitted"
                    THEN events[k] + 1 ELSE events[k]]
    /\ block_process_times' = ReportEach(block_process_times, Cardinality(Emitting(i, r)))
    /\ recorded' = [recorded EXCEPT
                       !.BLOCK_PROCESS = ReportEach(@, Cardinality(Emitting(i, r)))]
    /\ UNCHANGED <<clients, chain, delivered, swapVars, mainVars>>
    /\ UNCHANGED <<swap_process_times, stats_pc, calc_args, reports>>

\* The outcomes of a remote call.
Outcomes == {"ok"} \cup (IF remote_failures < MaxFailures THEN {"RemoteCallFailure"} ELSE {})

\* remote_failures after a remote call that ended with r.
CountFailure(r) == IF r = "RemoteCallFailure" THEN remote_failures + 1 ELSE remote_failures

\* A free worker thread takes a block fetch and calls conn.eth.getBlock.
StartGetBlock(i) ==
    /\ CanStart(i)
    /\ tasks[i].kind = "getBlock"
    /\ tasks' = [tasks EXCEPT ![i].st = "running"]
    /\ UNCHANGED <<pool, remote_failures, pollVars, trackerVars, swapVars, statsVars, mainVars>>

\* conn.eth.getBlock returns or raises.
FinishGetBlock(i, r) ==
    /\ tasks[i].kind = "getBlock" /\ tasks[i].st = "running"
    /\ r \in Outcomes
    /\ tasks' = [tasks EXCEPT ![i].st = "done", ![i].res = r]
    /\ remote_failures' = CountFailure(r)
    /\ Resolve(i, r)
    /\ UNCHANGED pool

\* A free worker thread takes a pair read and enters _pooled_contract:
\* self._contract_pool.get(timeout=3) returns at once when the queue holds a
\* connection, and blocks otherwise.
StartFetch(i) ==
    /\ CanStart(i)
    /\ IsFetch(tasks[i])
    /\ IF pool[tasks[i].pair] # <<>>
       THEN /\ tasks' = [tasks EXCEPT ![i].st = "holding",
                                      ![i].conn = Head(pool[tasks[i].pair])]
            /\ pool' = [pool EXCEPT ![tasks[i].pair] = QueueAfterGet(@)]
       ELSE /\ tasks' = [tasks EXCEPT ![i].st = "waiting"]
            /\ pool' = pool
    /\ UNCHANGED <<remote_failures, pollVars, trackerVars, swapVars, statsVars, mainVars>>

\* A blocked get(timeout=3) returns a connection another thread has put back.
Acquire(i) ==
    /\ tasks[i].st = "waiting"
    /\ pool[tasks[i].pair] # <<>>
    /\ tasks' = [tasks EXCEPT ![i].st = "holding", ![i].conn = Head(pool[tasks[i].pair])]
    /\ pool' = [pool EXCEPT ![tasks[i].pair] = QueueAfterGet(@)]
    /\ UNCHANGED <<remote_failures, pollVars, trackerVars, swapVars, statsVars, mainVars>>

\* A blocked get(timeout=3) finds the queue still empty after 3 s and raises
\* queue.Empty; the finally clause of _pooled_contract runs and the read raises.
AcquireTimeout(i) ==
    /\ tasks[i].st = "waiting"
    /\ pool[tasks[i].pair] = <<>>
    /\ tasks' = [tasks EXCEPT ![i].st = "done",
                              ![i].res = PooledContractExit(FALSE, "Empty")]
    /\ pool' = [pool EXCEPT ![tasks[i].pair] =
                    PooledContractPut(@, FALSE, tasks[i].conn, "Empty")]
    /\ UNCHANGED remote_failures
    /\ Resolve(i, PooledContractExit(FALSE, "Empty"))

\* fetch_lp_token_supply / fetch_current_pool_reserves: the contract call
\* returns or raises, and the finally clause of _pooled_contract runs.
CallAndRelease(i, r) ==
    /\ tasks[i].st = "holding"
    /\ r \in Outcomes
    /\ tasks' = [tasks EXCEPT ![i].st = "done", ![i].conn = None,
                              ![i].res = PooledContractExit(TRUE, r)]
    /\ pool' = [pool EXCEPT ![tasks[i].pair] = PooledContractPut(@, TRUE, tasks[i].conn, r)]
    /\ remote_failures' = CountFailure(r)
    /\ Resolve(i, PooledContractExit(TRUE, r))

Next ==
    \/ \E n \in 0..NumBlocks : PollBlocks(n) /\ UNCHANGED mainVars
    \/ \E i \in 1..Len(tasks) : StartGetBlock(i)
    \/ \E i \in 1..Len(tasks), r \in {"ok", "RemoteCallFailure"} : FinishGetBlock(i, r)
    \/ \E i \in 1..Len(tasks) : StartFetch(i)
    \/ \E i \in 1..Len(tasks) : Acquire(i)
    \/ \E i \in 1..Len(tasks) : AcquireTimeout(i)
    \/ \E i \in 1..Len(tasks), r \in {"ok", "RemoteCallFailure"} : CallAndRelease(i, r)

Spec == Init /\ [][Next]_vars

\* ------------------------------------------------ the tracker on its own
\* The done callbacks of the block fetches, in any order of completion.
TrackerInit ==
    /\ clients = Clients
    /\ chain \in TrackerChains
    /\ InitMain /\ InitPool /\ InitPoll /\ InitTracker /\ InitSwaps /\ InitStats

TrackerCheck(b) ==
    /\ b \in DOMAIN chain
    /\ \A k \in 1..Len(checked) : checked[k] # b
    /\ AssertContinuousBlockLineage(b)
    /\ UNCHANGED <<poolVars, pollVars, swapVars, statsVars, mainVars>>

TrackerNext == \E b \in 1..TrackedBlocks : TrackerCheck(b)

TrackerSpec == TrackerInit /\ [][TrackerNext]_vars

\* --------------------------------------------------------- the swap loops
\* Variant: `if new_swaps is not None`.
TruthyAs(entries) == TRUE

\* `if (new_swaps := swap_filter.get_new_entries())`: a list is true when it
\* is not empty.
Truthy(entries) == entries # <<>>

\* swap_loop of the client of p, one iteration of `while True`: the filter
\* poll returns `entries`; a non-empty result is built into a batch and
\* printed, and the latency of doing so reported.
SwapTick(p, entries) ==
    /\ p \in ClientPairs
    /\ swap_pair' = p
    /\ new_swaps' = entries
    /\ swap_printed' = Truthy(entries)
    /\ swap_events' = IF Truthy(entries) THEN BuildLatestPairSwapsEvent(p, entries) ELSE <<>>
    /\ swap_mismatches' = IF Truthy(entries) THEN BatchMismatches(entries) ELSE 0
    /\ swap_process_times' =
           IF Truthy(entries) THEN ReportProcess(swap_process_times, UnitTiming)
           ELSE swap_process_times
    /\ recorded' = [recorded EXCEPT
                       !.SWAP_PROCESS = IF Truthy(entries) THEN ReportProcess(@, UnitTiming) ELSE @]
    /\ UNCHANGED <<swap_filter, block_process_times, stats_pc, calc_args, reports>>
    /\ UNCHANGED <<poolVars, pollVars, trackerVars>>

SwapInit ==
    /\ clients = Clients
    /\ chain \in {c \in Chains : WellLinked(c)}
    /\ InitMain /\ InitPool /\ InitPoll /\ InitTracker /\ InitSwaps /\ InitStats

SwapNext ==
    \E p \in ClientPairs, entries \in SeqsUpTo(SwapLogs, MaxSwaps) :
        /\ Len(recorded.SWAP_PROCESS) < MaxSamples
        /\ SwapTick(p, entries)
        /\ UNCHANGED mainVars

SwapSpec == SwapInit /\ [][SwapNext]_vars

\* ------------------------------------------------- the stats aggregator
\* The pollers call report_block_process / report_swap_process on the event
\* loop, with the timing of the unit of work they finished.
ReportBlockProcess(timing) ==
    /\ block_process_times' = ReportProcess(block_process_times, timing)
    /\ recorded' = [recorded EXCEPT !.BLOCK_PROCESS = ReportProcess(@, timing)]
    /\ UNCHANGED <<swap_process_times, stats_pc, calc_args, reports>>
    /\ UNCHANGED <<poolVars, pollVars, trackerVars, swapVars, mainVars>>

ReportSwapProcess(timing) ==
    /\ swap_process_times' = ReportProcess(swap_process_times, timing)
    /\ recorded' = [recorded EXCEPT !.SWAP_PROCESS = ReportProcess(@, timing)]
    /\ UNCHANGED <<block_process_times, stats_pc, calc_args, reports>>
    /\ UNCHANGED <<poolVars, pollVars, trackerVars, swapVars, mainVars>>

\* report_process_stats from the return of `await asyncio.sleep` to the next
\* await: both lists are copied and reset and calculate_process_stats is
\* submitted to the executor with the copies.
DrainProcessTimes ==
    /\ stats_pc = "sleeping"
    /\ calc_args' = [BLOCK_PROCESS |-> block_process_times,
                     SWAP_PROCESS |-> swap_process_times,
                     seen |-> Len(recorded.BLOCK_PROCESS) + Len(recorded.SWAP_PROCESS)]
    /\ block_process_times' = ResetTimes(block_process_times)
    /\ swap_process_times' = ResetTimes(swap_process_times)
    /\ stats_pc' = "computing"
    /\ UNCHANGED <<reports, recorded>>
    /\ UNCHANGED <<poolVars, pollVars, trackerVars, swapVars, mainVars>>

\* A worker thread has run calculate_process_stats; report_process_stats
\* resumes, prints the dict and goes back to sleep, or is left by the
\* exception the calculation raised.
PrintProcessStats ==
    /\ stats_pc = "computing"
    /\ IF CalculateRaises(calc_args.BLOCK_PROCESS, calc_args.SWAP_PROCESS) = "ok"
       THEN /\ reports' = Append(reports,
                    [stats |-> CalculateProcessStats(calc_args.BLOCK_PROCESS,
                                                     calc_args.SWAP_PROCESS),
                     args |-> calc_args])
            /\ stats_pc' = "sleeping"
       ELSE /\ reports' = reports
            /\ stats_pc' = "raised"
    /\ UNCHANGED <<block_process_times, swap_process_times, calc_args, recorded>>
    /\ UNCHANGED <<poolVars, pollVars, trackerVars, swapVars, mainVars>>

StatsInit ==
    /\ clients = Clients
    /\ chain \in {c \in Chains : WellLinked(c)}
    /\ InitMain /\ InitPool /\ InitPoll /\ InitTracker /\ InitSwaps /\ InitStats

StatsNext ==
    \/ \E timing \in Timings :
          /\ Len(recorded.BLOCK_PROCESS) + Len(recorded.SWAP_PROCESS) < MaxSamples
          /\ ReportBlockProcess(timing)
    \/ \E timing \in Timings :
          /\ Len(recorded.BLOCK_PROCESS) + Len(recorded.SWAP_PROCESS) < MaxSamples
          /\ ReportSwapProcess(timing)
    \/ Len(reports) < MaxReports /\ DrainProcessTimes
    \/ PrintProcessStats

StatsSpec == StatsInit /\ [][StatsNext]_vars

\* --------------------------------------------------- no monitored pair
\* main with an empty MONITORED_PAIRS: poll_for_blocks and
\* report_process_stats run, and poll_for_swaps has no swap_loop to gather.
ZeroPairsInit ==
    /\ clients = <<>>
    /\ chain \in Chains
    /\ InitMain /\ InitPool /\ InitPoll /\ InitTracker /\ InitSwaps /\ InitStats

ZeroPairsNext ==
    \/ \E n \in 0..NumBlocks : PollBlocks(n) /\ UNCHANGED mainVars
    \/ \E i \in 1..Len(tasks) : StartGetBlock(i)
    \/ \E i \in 1..Len(tasks), r \in {"ok", "RemoteCallFailure"} : FinishGetBlock(i, r)
    \/ Len(reports) < MaxReports /\ DrainProcessTimes
    \/ PrintProcessStats

ZeroPairsSpec == ZeroPairsInit /\ [][ZeroPairsNext]_vars

\* ------------------------------------------------------------------ main
\* main awaits asyncio.gather(poll_for_blocks, poll_for_swaps,
\* report_process_stats): no task has ended.
MainRunning ==
    /\ \A l \in DOMAIN loops : loops[l] = "running"
    /\ stats_pc \in {"sleeping", "computing"}

\* An exception leaves the poll loop l: neither loop has a try around
\* get_new_entries, the exception ends the loop's task, gather hands it to
\* main, main ends with it and asyncio.run cancels every task still pending.
LoopRaises(l) ==
    /\ loops' = [k \in DOMAIN loops |-> IF k = l THEN "raised" ELSE "cancelled"]
    /\ stats_pc' = "cancelled"
    /\ cps' = [c \in Coroutines |-> IF cps[c] = "awaiting" THEN "cancelled" ELSE cps[c]]

\* One iteration of poll_for_blocks whose poll of the filter returns.
BlockTick(n) ==
    /\ MainRunning
    /\ ticks["poll_for_blocks"] < MaxTicks
    /\ PollBlocks(n)
    /\ ticks' = [ticks EXCEPT !["poll_for_blocks"] = @ + 1]
    /\ UNCHANGED loops

\* One iteration of poll_for_blocks whose poll of the filter raises.
BlockPollRaises ==
    /\ MainRunning
    /\ ticks["poll_for_blocks"] < MaxTicks
    /\ ticks' = [ticks EXCEPT !["poll_for_blocks"] = @ + 1]
    /\ remote_failures' = remote_failures + 1
    /\ LoopRaises("poll_for_blocks")
    /\ UNCHANGED <<tasks, pool, clients, chain, delivered, events, trackerVars, swapVars>>
    /\ UNCHANGED <<block_process_times, swap_process_times, calc_args, reports, recorded>>

\* One iteration of the swap_loop of p whose poll of the filter returns.
SwapLoopTick(p, entries) ==
    /\ MainRunning
    /\ ticks[p] < MaxTicks
    /\ SwapTick(p, entries)
    /\ ticks' = [ticks EXCEPT ![p] = @ + 1]
    /\ UNCHANGED loops

\* One iteration of the swap_loop of p whose poll of the filter raises.
SwapPollRaises(p) ==
    /\ MainRunning
    /\ p \in ClientPairs
    /\ ticks[p] < MaxTicks
    /\ ticks' = [ticks EXCEPT ![p] = @ + 1]
    /\ remote_failures' = remote_failures + 1
    /\ LoopRaises(p)
    /\ UNCHANGED <<tasks, pool, clients, chain, delivered, events, trackerVars, swapVars>>
    /\ UNCHANGED <<block_process_times, swap_process_times, calc_args, reports, recorded>>

\* main with one monitored pair.  report_process_stats sleeps through a run
\* (its interval is 10 s, that of the polls 0.3 s); StatsSpec follows it.
MainInit ==
    /\ clients = <<Clients[1]>>
    /\ chain \in {c \in Chains : WellLinked(c)}
    /\ InitMain /\ InitPool /\ InitPoll /\ InitTracker /\ InitSwaps /\ InitStats

\* The event loop runs the three tasks of main, and the worker threads the
\* work items, until a task ends.
MainNext ==
    \/ \E n \in 0..NumBlocks : BlockTick(n)
    \/ BlockPollRaises
    \/ \E p \in ClientPairs, entries \in SeqsUpTo(SwapLogs, 1) : SwapLoopTick(p, entries)
    \/ \E p \in ClientPairs : SwapPollRaises(p)
    \/ \E i \in 1..Len(tasks) : MainRunning /\ StartGetBlock(i)
    \/ \E i \in 1..Len(tasks), r \in {"ok", "RemoteCallFailure"} :
          MainRunning /\ FinishGetBlock(i, r)
    \/ \E i \in 1..Len(tasks) : MainRunning /\ StartFetch(i)
    \/ \E i \in 1..Len(tasks) : MainRunning /\ Acquire(i)
    \/ \E i \in 1..Len(tasks) : MainRunning /\ AcquireTimeout(i)
    \/ \E i \in 1..Len(tasks), r \in {"ok", "RemoteCallFailure"} :
          MainRunning /\ CallAndRelease(i, r)

MainSpec == MainInit /\ [][MainNext]_vars

\* ------------------------------------------- a remote call that hangs
\* The remote call of work item i, a block fetch or a pair read that holds
\* its connection, never returns: the worker thread stays in it.  One call
\* hangs in a run at most.
CallHangs(i) ==
    /\ \/ tasks[i].kind = "getBlock" /\ tasks[i].st = "running"
       \/ IsFetch(tasks[i]) /\ tasks[i].st = "holding"
    /\ \A j \in 1..Len(tasks) : tasks[j].st # "hung"
    /\ tasks' = [tasks EXCEPT ![i].st = "hung"]
    /\ UNCHANGED <<pool, remote_failures, pollVars, trackerVars, swapVars, statsVars, mainVars>>

\* report_process_stats from the return of `await asyncio.sleep` to the next
\* await, with the executor: calculate_process_stats joins the queue of work
\* items.
SubmitCalculate ==
    /\ stats_pc = "sleeping"
    /\ calc_args' = [BLOCK_PROCESS |-> block_process_times,
                     SWAP_PROCESS |-> swap_process_times,
                     seen |-> Len(recorded.BLOCK_PROCESS) + Len(recorded.SWAP_PROCESS)]
    /\ block_process_times' = ResetTimes(block_process_times)
    /\ swap_process_times' = ResetTimes(swap_process_times)
    /\ stats_pc' = "computing"
    /\ tasks' = Append(tasks, StatsTask)
    /\ UNCHANGED <<reports, recorded>>
    /\ UNCHANGED <<pool, remote_failures, pollVars, trackerVars, swapVars, mainVars>>

\* A free worker thread takes calculate_process_stats.
StartCalculate(i) ==
    /\ CanStart(i)
    /\ tasks[i].kind = "stats"
    /\ tasks' = [tasks EXCEPT ![i].st = "running"]
    /\ UNCHANGED <<pool, remote_failures, pollVars, trackerVars, swapVars, statsVars, mainVars>>

\* calculate_process_stats returns; report_process_stats resumes, prints the
\* dict and goes back to sleep, or is left by the exception.
FinishCalculate(i) ==
    /\ tasks[i].kind = "stats" /\ tasks[i].st = "running"
    /\ tasks' = [tasks EXCEPT ![i].st = "done",
                  ![i].res = CalculateRaises(calc_args.BLOCK_PROCESS, calc_args.SWAP_PROCESS)]
    /\ IF CalculateRaises(calc_args.BLOCK_PROCESS, calc_args.SWAP_PROCESS) = "ok"
       THEN /\ reports' = Append(reports,
                    [stats |-> CalculateProcessStats(calc_args.BLOCK_PROCESS,
                                                     calc_args.SWAP_PROCESS),
                     args |-> calc_args])
            /\ stats_pc' = "sleeping"
       ELSE /\ reports' = reports
            /\ stats_pc' = "raised"
    /\ UNCHANGED <<block_process_times, swap_process_times, calc_args, recorded>>
    /\ UNCHANGED <<pool, remote_failures, pollVars, trackerVars, swapVars, mainVars>>

\* main with one monitored pair, a node that answers every call but the one
\* that hangs, and answers well within the 3 s a read waits for a pooled
\* connection: no call raises and no acquisition times out.
HangInit ==
    /\ clients = <<Clients[1]>>
    /\ chain \in {c \in Chains : WellLinked(c)}
    /\ InitMain /\ InitPool /\ InitPoll /\ InitTracker /\ InitSwaps /\ InitStats

\* The poll of the new-block filter returns the blocks produced since the
\* last poll.
NewBlocks == \E n \in 1..NumBlocks : PollBlocks(n) /\ UNCHANGED mainVars

\* A step of a worker thread.
WorkerStep ==
    \/ \E i \in 1..Len(tasks) : StartGetBlock(i)
    \/ \E i \in 1..Len(tasks) : FinishGetBlock(i, "ok")
    \/ \E i \in 1..Len(tasks) : StartFetch(i)
    \/ \E i \in 1..Len(tasks) : Acquire(i)
    \/ \E i \in 1..Len(tasks) : CallAndRelease(i, "ok")
    \/ \E i \in 1..Len(tasks) : StartCalculate(i)
    \/ \E i \in 1..Len(tasks) : FinishCalculate(i)

\* The report loop wakes every 10 s.
ReportWakes == Len(reports) < MaxReports /\ SubmitCalculate

HangNext ==
    \/ NewBlocks
    \/ WorkerStep
    \/ ReportWakes
    \/ \E i \in 1..Len(tasks) : CallHangs(i)

\* The node keeps producing blocks and the poll loop never waits for a work
\* item; a worker thread that can take a step does; the report loop wakes.
HangSpec ==
    /\ HangInit /\ [][HangNext]_vars
    /\ WF_vars(NewBlocks) /\ WF_vars(WorkerStep) /\ WF_vars(ReportWakes)

\* ================================================================ claims
Holders(p) == {i \in 1..Len(tasks) : tasks[i].st = "holding" /\ tasks[i].pair = p}

InPool(p) == {pool[p][k] : k \in 1..Len(pool[p])}

FetchTasks == {i \in 1..Len(tasks) : IsFetch(tasks[i])}

\* C1: in every reachable state, two reads of the same pair that hold a pooled
\* connection hold different connections, and a connection a read holds is
\* not in the pool for another thread to get.
C1_NoSharedConnection ==
    \A p \in Pairs :
        /\ \A i, j \in Holders(p) : i # j => tasks[i].conn # tasks[j].conn
        /\ \A i \in Holders(p) : tasks[i].conn \notin InPool(p)

\* Both connections of one pool are held by two reads while a third read of
\* the pair is blocked in get.
C1_Witness ==
    \E p \in Pairs :
        /\ Cardinality(Holders(p)) = PoolSize
        /\ \E i \in FetchTasks : tasks[i].pair = p /\ tasks[i].st = "waiting"

\* C2: for every pair, across acquires, releases, failed calls and timeouts,
\* the connections checked out are at most N, the connections in the pool and
\* those checked out are together exactly the N connections built, and with
\* no read holding a connection the pool holds all N.
C2_PoolConserved ==
    \A p \in Pairs :
        /\ Cardinality(Holders(p)) <= PoolSize
        /\ Len(pool[p]) + Cardinality(Holders(p)) = PoolSize
        /\ InPool(p) \cup {tasks[i].conn : i \in Holders(p)} = 1..PoolSize
        /\ Holders(p) = {} => Len(pool[p]) = PoolSize

\* A read of the pair timed out, another failed remotely, and the pool is
\* whole again with nothing in flight.
C2_Witness ==
    \E p \in Pairs :
        /\ \E i \in FetchTasks : tasks[i].pair = p /\ tasks[i].res = "UnboundLocalError"
        /\ \E i \in FetchTasks : tasks[i].pair = p /\ tasks[i].res = "RemoteCallFailure"
        /\ Holders(p) = {}
        /\ Len(pool[p]) = PoolSize

\* C3: in every step in which the remote call of a read that holds a
\* connection fails, that connection goes back to the pool, the read ends
\* with the remote call's error, no work item is submitted again, and the
\* collect_pool_status awaiting it raises.
C3_FailedReadStep(i) ==
    (/\ tasks[i].st = "holding"
     /\ tasks'[i].st = "done"
     /\ remote_failures' = remote_failures + 1)
    => /\ pool'[tasks[i].pair] = Append(pool[tasks[i].pair], tasks[i].conn)
       /\ tasks'[i].res = "RemoteCallFailure"
       /\ Len(tasks') = Len(tasks)
       /\ \A j \in 1..Len(tasks) : j # i => tasks'[j] = tasks[j]
       /\ cps'[<<tasks[i].block, tasks[i].pair>>] # "emitted"

C3_FailedReadReleases == [][\A i \in 1..Len(tasks) : C3_FailedReadStep(i)]_vars

\* A read has failed remotely and its pool is whole.
C3_Witness ==
    \E i \in FetchTasks :
        /\ tasks[i].res = "RemoteCallFailure"
        /\ Len(pool[tasks[i].pair]) = PoolSize
        /\ cps[<<tasks[i].block, tasks[i].pair>>] = "raised"

\* C4: a read blocked on an empty pool either stays blocked, or obtains a
\* connection the pool then holds, or ends with the pool-exhausted error of
\* the timed-out get (queue.Empty), leaving the pool as it was.
C4_BlockedReadStep(i) ==
    tasks[i].st = "waiting"
    => \/ tasks'[i].st = "waiting"
       \/ /\ tasks'[i].st = "holding"
          /\ pool[tasks[i].pair] # <<>>
          /\ tasks'[i].conn = Head(pool[tasks[i].pair])
       \/ /\ tasks'[i].st = "done"
          /\ tasks'[i].res = "Empty"
          /\ pool' = pool

C4_TimeoutSurfacesEmpty == [][\A i \in 1..Len(tasks) : C4_BlockedReadStep(i)]_vars

\* C5: on a chain in which every block's parentHash is the hash of the block
\* before it, the missing-block line is never printed.
C5_NoAnomalyOnLinkedChain ==
    WellLinked(chain) => \A b \in DOMAIN chain : anomalies[b] = 0

\* C6: for blocks B1, B2, B3 checked one after the other with
\* B2.parentHash # B1.hash and B3.parentHash = B2.hash, the missing-block line
\* is printed once for B2 and not for B3, and after the check of B2
\* prev_block is the hex of B2.hash.
C6_GapReportedOnce ==
    \A k \in 2..Len(checked) :
        LET B1 == chain[checked[k - 1]]
            B2 == chain[checked[k]]
        IN B2.parentHash # B1.hash
           => /\ anomalies[checked[k]] = 1
              /\ k = Len(checked) => prev_block = Hex(B2.hash)
              /\ (k < Len(checked) /\ chain[checked[k + 1]].parentHash = B2.hash)
                 => anomalies[checked[k + 1]] = 0

\* Three blocks have been checked, the second off the first and the third on
\* the second.
C6_Witness ==
    /\ Len(checked) = 3
    /\ chain[checked[2]].parentHash # chain[checked[1]].hash
    /\ chain[checked[3]].parentHash = chain[checked[2]].hash
    /\ anomalies[checked[2]] = 1

\* C7: the first block the tracker checks never has the missing-block line
\* printed, whatever its parent hash, and right after its check prev_block is
\* the hex of its hash.
C7_SeedNotReported ==
    Len(checked) >= 1
    => /\ anomalies[checked[1]] = 0
       /\ Len(checked) = 1 => prev_block = Hex(chain[checked[1]].hash)

\* The first block checked has a parent hash that is not its predecessor's.
C7_Witness ==
    /\ Len(checked) = 1
    /\ chain[checked[1]].parentHash # BlockHash(checked[1] - 1)
    /\ prev_block # None

\* Every block has been delivered and every work item has completed.
Quiescent ==
    /\ delivered = NumBlocks
    /\ \A i \in 1..Len(tasks) : tasks[i].st = "done"

TimedOut(b, p) == \E j \in Awaited(b, p) : tasks[j].res = "UnboundLocalError"

\* C8 as stated: on a well-linked chain whose remote calls all succeed, once
\* all work has completed there is exactly one PairStatusEvent for every
\* (pair, block).
C8_AllEventsEmitted ==
    (Quiescent /\ WellLinked(chain) /\ remote_failures = 0)
    => \A k \in EventKeys : events[k] = 1

\* C8 amended: on a well-linked chain whose remote calls all succeed, no
\* (pair, block) ever has more than one PairStatusEvent, a (pair, block) one
\* of whose reads timed out on the pool never has one, and once all work has
\* completed every other (pair, block) has exactly one.
C8_EventsUnlessTimeout ==
    (WellLinked(chain) /\ remote_failures = 0)
    => \A b \in 1..NumBlocks, p \in Pairs :
          /\ events[<<p, BlockNumber(b)>>] <= 1
          /\ TimedOut(b, p) => events[<<p, BlockNumber(b)>>] = 0
          /\ (Quiescent /\ ~TimedOut(b, p)) => events[<<p, BlockNumber(b)>>] = 1

\* All work has completed on a well-linked chain without a remote failure:
\* one (pair, block) lost its event to a pool timeout, the others have theirs.
C8_Witness ==
    /\ Quiescent /\ WellLinked(chain) /\ remote_failures = 0
    /\ \E k \in EventKeys : events[k] = 0
    /\ Cardinality({k \in EventKeys : events[k] = 1}) = Cardinality(EventKeys) - 1

BlockNumbersOf(swaps) == {swaps[k].blockNumber : k \in 1..Len(swaps)}

\* C9: a swap poll whose entries span more than one block number prints the
\* mismatched-blocks line exactly once, and the batch holds every entry.
C9_OneAnomalyPerTick ==
    Cardinality(BlockNumbersOf(new_swaps)) > 1
    => /\ swap_mismatches = 1
       /\ swap_printed
       /\ Len(swap_events) = Len(new_swaps)

\* C10: a swap poll whose entries (one or more) share one block number prints
\* a batch of as many SwapEvents as entries and no mismatched-blocks line.
C10_SameBlockBatch ==
    Cardinality(BlockNumbersOf(new_swaps)) = 1
    => /\ swap_printed
       /\ Len(swap_events) = Len(new_swaps)
       /\ swap_mismatches = 0

\* A poll returned two entries of the same block.
C10_Witness ==
    /\ Len(new_swaps) = 2
    /\ Cardinality(BlockNumbersOf(new_swaps)) = 1
    /\ swap_printed

\* The samples of class c the reports printed so far were computed from.
RECURSIVE Folded(_, _)
Folded(c, k) == IF k = 0 THEN <<>> ELSE Folded(c, k - 1) \o reports[k].args[c]

\* The samples of class c a worker thread is computing statistics of.
InFlight(c) == IF stats_pc = "computing" THEN calc_args[c] ELSE <<>>

Running(c) == IF c = "BLOCK_PROCESS" THEN block_process_times ELSE swap_process_times

Classes == {"BLOCK_PROCESS", "SWAP_PROCESS"}

\* C11: in every reachable state and for both classes, the samples recorded
\* so far are, in the order recorded and each exactly once, the samples of
\* the printed reports, then those being computed on a worker thread, then
\* those in the running list waiting for the next report.
C11_SamplesFoldedOnce ==
    \A c \in Classes : recorded[c] = Folded(c, Len(reports)) \o InFlight(c) \o Running(c)

\* After a first report, a second batch is being computed on a worker thread
\* and a sample of the same class was recorded meanwhile.
C11_Witness ==
    /\ Len(reports) = 1
    /\ stats_pc = "computing"
    /\ \E c \in Classes : reports[1].args[c] # <<>> /\ calc_args[c] # <<>> /\ Running(c) # <<>>

ZeroStats ==
    [min_process_time_ms |-> 0, max_process_time_ms |-> 0,
     p50_process_time_ms |-> 0, p99_process_time_ms |-> 0]

\* C12: the report loop is never left by an error; a report computed from no
\* sample of a class has 0 for the class's min, max, p50 and p99; and a report
\* drained with no record since the previous drain is all-zero for both
\* classes.
C12_EmptyReportsZero ==
    /\ stats_pc # "raised"
    /\ \A k \in 1..Len(reports), c \in Classes :
          reports[k].args[c] = <<>> => reports[k].stats[c] = ZeroStats
    /\ \A k \in 2..Len(reports) :
          reports[k].args.seen = reports[k - 1].args.seen
          => \A c \in Classes : reports[k].stats[c] = ZeroStats

\* A report with samples was followed by a report with no record in between.
C12_Witness ==
    /\ Len(reports) = 2
    /\ reports[1].args.seen > 0
    /\ reports[2].args.seen = reports[1].args.seen
    /\ reports[2].stats.BLOCK_PROCESS = ZeroStats

\* An iteration of a poll loop in which the poll of the filter raised.
FailedPollStep == ticks' # ticks /\ remote_failures' = remote_failures + 1

\* C13: in every step in which the poll of the new-block filter or of a swap
\* filter fails, the block poller, every swap poller and the stats loop are
\* still running afterwards.
C13_PollFailureConfined ==
    [][FailedPollStep
       => /\ \A l \in DOMAIN loops : loops'[l] = "running"
          /\ stats_pc' \in {"sleeping", "computing"}]_vars

\* An iteration of poll_for_blocks whose poll returned no entry.
EmptyBlockTick ==
    /\ ticks'["poll_for_blocks"] = ticks["poll_for_blocks"] + 1
    /\ loops' = loops
    /\ delivered' = delivered

\* An iteration of the swap_loop of p whose poll returned no entry.
EmptySwapTick(p) ==
    /\ ticks'[p] = ticks[p] + 1
    /\ loops' = loops
    /\ new_swaps' = <<>>

\* No PairStatusEvent, no missing-block line, no sample, no exception, no new
\* work item, and the tracker and the pools as they were.
NothingHappens ==
    /\ UNCHANGED <<events, trackerVars, tasks, pool, cps, remote_failures>>
    /\ UNCHANGED <<block_process_times, swap_process_times, recorded, stats_pc, loops>>

\* C15: an iteration of poll_for_blocks or of a swap_loop whose poll returns
\* no entry prints no PairStatusEvent, no swap batch, no missing-block and no
\* mismatched-blocks line, records no sample, raises nothing, submits nothing
\* and leaves the lineage tracker and the pools as they were, however many
\* such iterations follow each other.
C15_EmptyTickIdle ==
    [][/\ EmptyBlockTick => NothingHappens /\ UNCHANGED swapVars
       /\ \A p \in ClientPairs :
             EmptySwapTick(p)
             => /\ NothingHappens
                /\ swap_printed' = FALSE /\ swap_events' = <<>> /\ swap_mismatches' = 0]_vars

\* The block poller has made an empty iteration and one that returned a
\* block, a swap loop only empty iterations, and a read of the block holds a
\* pooled connection.
C15_Witness ==
    /\ MainRunning
    /\ ticks["poll_for_blocks"] = MaxTicks /\ delivered = 1
    /\ \E p \in ClientPairs :
          /\ ticks[p] = MaxTicks /\ recorded.SWAP_PROCESS = <<>>
          /\ \E i \in 1..Len(tasks) : tasks[i].st = "holding" /\ tasks[i].pair = p

\* The reads of pair p for block b, and the fetch of block b.
ReadsOf(b, p) ==
    {j \in 1..Len(tasks) : IsFetch(tasks[j]) /\ tasks[j].block = b /\ tasks[j].pair = p}

FetchOf(b) == {j \in 1..Len(tasks) : tasks[j].kind = "getBlock" /\ tasks[j].block = b}

Succeeded(j) == tasks[j].st = "done" /\ tasks[j].res = "ok"

Failed(j) == tasks[j].st = "done" /\ tasks[j].res # "ok"

\* C14: when a reserves or LP-supply read of pair p for block b has failed,
\* remotely or on the pool timeout, no PairStatusEvent is printed for (p, b),
\* every other pair whose two reads and block fetch succeeded has its event
\* for b, the lineage check of b has run once its fetch succeeded, and
\* poll_for_blocks is still running.
C14_ReadFailureConfined ==
    \A b \in 1..delivered, p \in Pairs :
        (\E j \in ReadsOf(b, p) : Failed(j))
        => /\ events[<<p, BlockNumber(b)>>] = 0
           /\ \A q \in Pairs \ {p} :
                 (\A j \in ReadsOf(b, q) \cup FetchOf(b) : Succeeded(j))
                 => events[<<q, BlockNumber(b)>>] = 1
           /\ (\A j \in FetchOf(b) : Succeeded(j))
              => \E k \in 1..Len(checked) : checked[k] = b
           /\ loops["poll_for_blocks"] = "running"

\* A read of a pair failed remotely for the first block; the other pair has
\* its event for that block, the block was checked, and the failing pair has
\* its event for the next block.
C14_Witness ==
    \E p \in Pairs :
        /\ \E j \in ReadsOf(1, p) : tasks[j].res = "RemoteCallFailure"
        /\ \A q \in Pairs \ {p} : events[<<q, BlockNumber(1)>>] = 1
        /\ \E k \in 1..Len(checked) : checked[k] = 1
        /\ events[<<p, BlockNumber(2)>>] = 1

\* C16: with no monitored pair, every block the filter returned has its
\* fetch submitted, every block whose fetch succeeded has been through the
\* lineage check exactly once, after the check of a block prev_block is that
\* block's hash, no pair read is ever submitted and no PairStatusEvent is
\* ever printed.
C16_ZeroPairs ==
    /\ \A b \in 1..delivered : Cardinality(FetchOf(b)) = 1
    /\ \A b \in 1..delivered :
          (\A j \in FetchOf(b) : Succeeded(j))
          <=> Cardinality({k \in 1..Len(checked) : checked[k] = b}) = 1
    /\ Len(checked) > 0 => prev_block = Hex(chain[checked[Len(checked)]].hash)
    /\ \A j \in 1..Len(tasks) : ~IsFetch(tasks[j])
    /\ \A k \in EventKeys : events[k] = 0
    /\ block_process_times = <<>>

\* Both blocks were fetched and checked with no pair monitored.
C16_Witness ==
    /\ clients = <<>>
    /\ Len(checked) = NumBlocks
    /\ prev_block = Hex(chain[checked[NumBlocks]].hash)

\* C17 as stated: work items are submitted block after block, the fetch and
\* the pair reads of a block before those of every later block.
C17_OneBlockAtATime ==
    \A i, j \in 1..Len(tasks) : i < j => tasks[i].block <= tasks[j].block

\* Position of a pair in the clients list.
ClientIndex(p) == CHOOSE c \in 1..Len(clients) : clients[c] = p

\* Work item i is submitted before work item j in the order the code follows:
\* block fetches by block; pair reads by block, then by client, LP supply
\* before reserves; the fetch of a block before the reads of that block.
SubmittedInOrder(i, j) ==
    LET t == tasks'[i]
        u == tasks'[j]
    IN /\ (t.kind = "getBlock" /\ u.kind = "getBlock") => t.block < u.block
       /\ (IsFetch(t) /\ IsFetch(u))
          => \/ t.block < u.block
             \/ t.block = u.block /\ ClientIndex(t.pair) < ClientIndex(u.pair)
             \/ t.block = u.block /\ t.pair = u.pair /\ t.kind = "lp" /\ u.kind = "reserves"
       /\ (IsFetch(t) /\ u.kind = "getBlock") => t.block < u.block

\* C17 amended: at every step the block fetches are in notification order,
\* the pair reads are in notification order (clients in list order, LP supply
\* before reserves), and no read is submitted before the fetch of its block or
\* of an earlier block; and a poll that returns n blocks submits the n
\* fetches first and the reads of the n blocks after them.
C17_FetchesThenReads ==
    [][/\ \A i, j \in 1..Len(tasks') : i < j => SubmittedInOrder(i, j)
       /\ delivered' > delivered
          => LET n == delivered' - delivered
             IN /\ Len(tasks') = Len(tasks) + n + 2 * n * Len(clients)
                /\ \A k \in 1..n : tasks'[Len(tasks) + k].kind = "getBlock"
                /\ \A k \in (n + 1)..(n + 2 * n * Len(clients)) :
                      IsFetch(tasks'[Len(tasks) + k])]_vars

\* One poll returned both blocks: the fetch of the second block stands
\* before the reads of the first.
C17_Witness ==
    /\ Len(tasks) = NumBlocks + 2 * NumBlocks * Len(clients)
    /\ \A k \in 1..NumBlocks : tasks[k].kind = "getBlock" /\ tasks[k].block = k
    /\ IsFetch(tasks[NumBlocks + 1]) /\ tasks[NumBlocks + 1].block = 1

\* C18: for every block b and pair p, the PairStatusEvents printed with pair
\* p and the number of b are one when collect_pool_status of (b, p) has
\* printed and none otherwise, and it has printed only with the fetch of b
\* and both reads of p for b completed successfully, whatever the order in
\* which the blocks in flight complete.
C18_EventTaggedWithItsBlock ==
    \A b \in 1..NumBlocks, p \in Pairs :
        /\ events[<<p, BlockNumber(b)>>] = IF cps[<<b, p>>] = "emitted" THEN 1 ELSE 0
        /\ cps[<<b, p>>] = "emitted"
           => /\ Cardinality(FetchOf(b)) = 1 /\ Cardinality(ReadsOf(b, p)) = 2
              /\ \A j \in FetchOf(b) \cup ReadsOf(b, p) : Succeeded(j)

\* The event of the second block is printed while collect_pool_status of the
\* first block is still waiting for the same pair.
C18_Witness ==
    \E p \in Pairs :
        /\ events[<<p, BlockNumber(2)>>] = 1
        /\ cps[<<1, p>>] = "awaiting"
        /\ events[<<p, BlockNumber(1)>>] = 0

\* C19: for every client, the connection its swap filter polls is none of
\* the N connections built for the pool, is never in the pool, and is never
\* held by a read (what _pooled_contract hands out comes from the pool).
C19_DedicatedSwapConnection ==
    \A p \in ClientPairs :
        /\ swap_filter[p] \notin {BuildContractPool[k] : k \in 1..PoolSize}
        /\ swap_filter[p] \notin InPool(p)
        /\ \A i \in Holders(p) : tasks[i].conn # swap_filter[p]

\* The swap loop of a pair has printed a batch while all pooled connections
\* of the pair are held by reads and a further read waits for one.
C19_Witness ==
    \E p \in ClientPairs :
        /\ swap_pair = p /\ swap_printed
        /\ Cardinality(Holders(p)) = PoolSize
        /\ \E i \in FetchTasks : tasks[i].pair = p /\ tasks[i].st = "waiting"
        /\ pool[p] = <<>>

\* Worker threads inside conn.eth.getBlock, a call on the connection main
\* built and the new-block filter polls.
RunningFetches ==
    {i \in 1..Len(tasks) : tasks[i].kind = "getBlock" /\ tasks[i].st = "running"}

\* C20: at most one worker thread at a time is inside a block fetch on the
\* main connection, and none is while the event loop polls the new-block
\* filter on it.
C20_MainConnectionOneThread ==
    [][/\ Cardinality(RunningFetches') <= 1
       /\ delivered' # delivered => RunningFetches = {}]_vars

\* The work item whose remote call hangs is one collect_pool_status of
\* (b, p) waits for.
Hung(b, p) == \E j \in Awaited(b, p) : tasks[j].st = "hung"

\* Every block was delivered, every collect_pool_status that does not wait
\* for the hung call has printed its event, and every report is printed.
AllButHungDone ==
    /\ delivered = NumBlocks
    /\ \A b \in 1..NumBlocks, p \in ClientPairs :
          ~Hung(b, p) => (cps[<<b, p>>] = "emitted" /\ events[<<p, BlockNumber(b)>>] = 1)
    /\ \A b \in 1..NumBlocks :
          (\A j \in FetchOf(b) : tasks[j].st # "hung") => \A j \in FetchOf(b) : Succeeded(j)
    /\ Len(reports) = MaxReports /\ stats_pc = "sleeping"

C22_SwapEventsFollowLogs ==
    swap_printed
    => /\ Len(swap_events) = Len(new_swaps)
       /\ \A i \in 1..Len(new_swaps) :
             /\ swap_events[i].amount_0_in = new_swaps[i].args.amount0In
             /\ swap_events[i].amount_1_in = new_swaps[i].args.amount1In
             /\ swap_events[i].amount_0_out = new_swaps[i].args.amount0Out
             /\ swap_events[i].amount_1_out = new_swaps[i].args.amount1Out
             /\ swap_events[i].tx = Hex(new_swaps[i].transactionHash)
             /\ swap_events[i].block = new_swaps[i].blockNumber
             /\ swap_events[i].pair = swap_pair
             /\ swap_events[i].pair_id = Address(swap_pair)

\* A batch of three entries, the later block first, was printed for the
\* second client.
C22_Witness ==
    /\ swap_printed
    /\ swap_pair = Clients[2]
    /\ Len(new_swaps) = 3
    /\ new_swaps[1].blockNumber > new_swaps[2].blockNumber
    /\ new_swaps[1] # new_swaps[3]
    /\ swap_events[1].tx = "0xa3"

\* The samples of the example: 10, 20, 30 and 100 ms, in some order.
IsExample(times) ==
    /\ Len(times) = 4
    /\ {times[i] : i \in 1..4} = {10, 20, 30, 100}

\* C23: in every printed report and for every class with at least one sample
\* drained, min is the least sample, max is the greatest sample, and
\* min <= p50 <= p99 <= max; for the samples 10, 20, 30, 100 the report has
\* min = 10, max = 100 and p50 = 25.
C23_PercentilesOrdered ==
    \A k \in 1..Len(reports), c \in Classes :
        LET times == reports[k].args[c]
            stats == reports[k].stats[c]
        IN times # <<>> =>
             /\ \A i \in 1..Len(times) : times[i] >= 0
             /\ \E i \in 1..Len(times) : stats.min_process_time_ms = times[i]
             /\ \A i \in 1..Len(times) : stats.min_process_time_ms <= times[i]
             /\ \E i \in 1..Len(times) : stats.max_process_time_ms = times[i]
             /\ \A i \in 1..Len(times) : stats.max_process_time_ms >= times[i]
             /\ stats.min_process_time_ms <= stats.p50_process_time_ms
             /\ stats.p50_process_time_ms <= stats.p99_process_time_ms
             /\ stats.p99_process_time_ms <= stats.max_process_time_ms
             /\ IsExample(times) =>
                  /\ stats.min_process_time_ms = 10
                  /\ stats.max_process_time_ms = 100
                  /\ stats.p50_process_time_ms = 25

\* A report was printed for block samples 100, 10, 30, 20 recorded in that
\* order, with a median between two samples.
C23_Witness ==
    \E k \in 1..Len(reports) :
        /\ reports[k].args.BLOCK_PROCESS = <<100, 10, 30, 20>>
        /\ reports[k].stats.BLOCK_PROCESS.p50_process_time_ms = 25
        /\ reports[k].stats.BLOCK_PROCESS.p99_process_time_ms = 97

====
